---- MODULE Spec2Model ----
(***************************************************************************)
(* The query server of hunt-genes/reggy (src/query.py): a process-wide     *)
(* store of queries, refreshed from the web server's feed and co-signed by *)
(* the registries, served by a socketserver.TCPServer that runs one        *)
(* QueryHandler.handle per connection.                                     *)
(*                                                                         *)
(* Each connection's handler is followed statement by statement: pc[c] is  *)
(* the handler's position, the other per-connection variables are the      *)
(* locals of handle.  The loops of fetch_queries and of handle take one    *)
(* step per iteration.                                                     *)
(*                                                                         *)
(* The summary server (src/summarize.py) is a second process with a state  *)
(* of its own: SummaryHandler.handle decrypts a batch of result lines,     *)
(* tallies them with create_summary and pushes the tally downstream.       *)
(***************************************************************************)
EXTENDS Integers, Sequences, FiniteSets, TLC

\* ---------------------------------------------------------------- bounds
\* Longest feed the web server answers with.
MaxFeed == 2
\* Longest signed_by list a reply may still extend.
MaxSigned == 2

\* Most individuals in a batch of results, and most result lines in it.
MaxIndividuals == 2
MaxLines == 3

\* Connections the server sees (each may connect again after it is closed).
Conns == {"c1", "c2"}
\* Query identifiers the web server assigns.
QueryIds == {"q1", "q2"}

None == "None"

\* ------------------------------------------------- constants of the code
valid_sources == {"hunt", "cancer", "death"}

\* config.RECIPIENTS: the encryption recipient of each registry.  This
\* deployment has none for death (an empty entry).
RECIPIENTS == [hunt |-> "hunt@registry", cancer |-> "cancer@registry", death |-> ""]

\* Keys the server's keyring trusts, and one it does not.
ServerKey == "query@server"
Keyring == {ServerKey, "hunt@registry", "cancer@registry", "death@registry"}
ForgedKey == "mallory@nowhere"

\* ----------------------------------------------------------------- inputs
\* Request lines: a JSON object with a source_id, recognised or not, or
\* one without the key.
Requests ==
    {[source_id |-> s] : s \in valid_sources \cup {"nobody"}} \cup {[hello |-> "world"]}

\* The payloads of the queries the web server publishes.
FieldValues == {[a |-> 1], [a |-> 2]}

\* The registries a query names as its signers.
SourceSets == {{"hunt"}, {"hunt", "cancer"}}

\* The feed's entries: per id, the live versions (status unset) and a
\* retired one (status set).
FeedQueries ==
    {[id |-> i, status |-> None, fields |-> f, sources |-> s] :
        i \in QueryIds, f \in FieldValues, s \in SourceSets}
    \cup
    {[id |-> i, status |-> "done", fields |-> [a |-> 1], sources |-> {"hunt"}] :
        i \in QueryIds}

\* json.dumps of a payload.
json_dumps(fields) ==
    IF fields = [a |-> 1] THEN "{\"a\": 1}" ELSE "{\"a\": 2}"

\* lib.sign: the server's clear-signed text over `text`, in .data.
sign(text) ==
    [data |-> [text |-> text, key |-> ServerKey], status |-> "signature created"]

\* lib.verify: whether the signed object carries a signature of the keyring.
verify(query) == query.key \in Keyring

\* What a registry (or whoever holds its connection) returns for a query:
\* the query signed with the registry's key, or with a key nobody trusts.
SignedBy(registry_id, query_id) ==
    {[text |-> query_id, key |-> RECIPIENTS[registry_id]],
     [text |-> query_id, key |-> ForgedKey]}

\* Reply mappings query_id -> returned query, in the order json.loads
\* yields them: each id at most once.
RECURSIVE ReplyMappings(_, _)
ReplyMappings(registry_id, ids) ==
    {<< >>} \cup
    UNION {{<<[query_id |-> i, query |-> q]>> \o rest :
              q \in SignedBy(registry_id, i),
              rest \in ReplyMappings(registry_id, ids \ {i})}
           : i \in ids}

\* lib.serialize_encrypt_and_encode: the frame only `recipient` can open.
serialize_encrypt_and_encode(obj, recipient) == [to |-> recipient, body |-> obj]

\* The frames a reply line can hold: end of file (the empty line readline
\* returns on a closed connection), bytes that do not decrypt, or a mapping
\* encrypted for the server.
EndOfFile == [to |-> None, body |-> << >>]
Garbage == [to |-> "garbage", body |-> << >>]
DecryptionFailure == "DecryptionFailure"

\* lib.decode_decrypt_and_deserialize: the object in a frame encrypted for
\* the server; fails on anything else.
CanDecrypt(line) == line.to = ServerKey
decode_decrypt_and_deserialize(line) == line.body

\* ------------------------------------------------------------------ state
VARIABLES
    signed_query_store, \* query_id -> query record (the module's global dict)
    pc,                 \* per connection: where its handler is
    source_id,          \* per connection: handle's source_id
    feed_left,          \* per connection: feed entries fetch_queries has yet to visit
    query,              \* per connection: fetch_queries' loop variable, once bound
    received,           \* per connection: the reply line, once read
    signed_queries,     \* per connection: reply entries the merge loop has yet to visit
    sent,               \* per connection: the frames sent on it
    refreshed,          \* per connection: the store as fetch_queries left it
    result,             \* per connection: how its handler ended
    \* the summary server
    spc,                \* where SummaryHandler.handle is
    envelope,           \* handle's data: the decrypted request
    decrypted_line,     \* handle's line: one individual's lines decrypted so far
    results,            \* handle's results: the individuals decrypted so far
    pushed,             \* the frames sent to the presentation server
    response,           \* what was sent back on the connection
    outcome             \* how the handler ended

query_vars == <<signed_query_store, pc, source_id, feed_left, query, received,
                signed_queries, sent, refreshed, result>>

summary_vars == <<spc, envelope, decrypted_line, results, pushed, response, outcome>>

vars == <<query_vars, summary_vars>>

EmptyStore == [i \in {} |-> None]

Init ==
    /\ signed_query_store = EmptyStore
    /\ pc = [c \in Conns |-> "closed"]
    /\ source_id = [c \in Conns |-> None]
    /\ feed_left = [c \in Conns |-> 0]
    /\ query = [c \in Conns |-> << >>]
    /\ received = [c \in Conns |-> << >>]
    /\ signed_queries = [c \in Conns |-> << >>]
    /\ sent = [c \in Conns |-> << >>]
    /\ refreshed = [c \in Conns |-> EmptyStore]
    /\ result = [c \in Conns |-> None]
    /\ spc = "idle"
    /\ envelope = [metadata |-> None, query_id |-> None, data |-> << >>]
    /\ decrypted_line = << >>
    /\ results = << >>
    /\ pushed = << >>
    /\ response = << >>
    /\ outcome = None

\* ----------------------------------------------------------------- server
\* socketserver.TCPServer handles one request at a time: serve_forever
\* takes the next connection only when the handler of the last has returned.
\* A server with a thread per connection.
ServerFreeThreading(c) == TRUE
ServerFree(c) == \A d \in Conns \ {c} : pc[d] \in {"closed", "pending"}

\* A client connects and writes its request line.
Connect(c) ==
    /\ pc[c] = "closed"
    /\ pc' = [pc EXCEPT ![c] = "pending"]
    /\ UNCHANGED <<signed_query_store, source_id, feed_left, query, received,
                   signed_queries, sent, refreshed, result>>
    /\ UNCHANGED summary_vars

\* The handler ends: by returning (how = "ok") or by raising `how`.
Ends(c, how) ==
    /\ pc' = [pc EXCEPT ![c] = "finished"]
    /\ result' = [result EXCEPT ![c] = how]

\* A handler that fetches for whoever asks.
HandleRequestUnchecked(c, data) ==
    IF "source_id" \notin DOMAIN data
    THEN /\ Ends(c, "KeyError")
         /\ UNCHANGED <<signed_query_store, source_id, feed_left, query,
                        received, signed_queries, sent, refreshed>>
    ELSE /\ source_id' = [source_id EXCEPT ![c] = data.source_id]
         /\ \E n \in 0..MaxFeed : feed_left' = [feed_left EXCEPT ![c] = n]
         /\ pc' = [pc EXCEPT ![c] = "fetch"]
         /\ UNCHANGED <<signed_query_store, query, received, signed_queries,
                        sent, refreshed, result>>

\* handle, lines 65-76: read the request, check the allow-list, fetch the feed.
HandleRequest(c, data) ==
    IF "source_id" \notin DOMAIN data
    THEN /\ Ends(c, "KeyError")
         /\ UNCHANGED <<signed_query_store, source_id, feed_left, query,
                        received, signed_queries, sent, refreshed>>
    ELSE IF data.source_id \in valid_sources
    THEN /\ source_id' = [source_id EXCEPT ![c] = data.source_id]
         /\ \E n \in 0..MaxFeed : feed_left' = [feed_left EXCEPT ![c] = n]
         /\ pc' = [pc EXCEPT ![c] = "fetch"]
         /\ UNCHANGED <<signed_query_store, query, received, signed_queries,
                        sent, refreshed, result>>
    ELSE /\ source_id' = [source_id EXCEPT ![c] = data.source_id]
         /\ Ends(c, "ok")
         /\ UNCHANGED <<signed_query_store, feed_left, query, received, signed_queries,
                        sent, refreshed>>

Accept(c) ==
    /\ pc[c] = "pending"
    /\ ServerFree(c)
    /\ \E data \in Requests : HandleRequest(c, data)
    /\ UNCHANGED summary_vars

\* ----------------------------------------------------------- fetch_queries
\* A record whose baseline signature is over the empty text.
NewRecordSignsNothing(entry) ==
    [id |-> entry.id, status |-> entry.status, fields |-> entry.fields,
     sources |-> entry.sources,
     signed_by |-> << >>,
     signed |-> sign("").data]

\* The record fetch_queries stores for a feed entry not seen before.
NewRecord(entry) ==
    [id |-> entry.id, status |-> entry.status, fields |-> entry.fields,
     sources |-> entry.sources,
     signed_by |-> << >>,
     signed |-> sign(json_dumps(entry.fields)).data]

\* del store[query_id], for a key the store holds.
RemoveNothing(store, query_id) == store
Remove(store, query_id) == [i \in DOMAIN store \ {query_id} |-> store[i]]

\* Line 43: the entry has no status and its id is not in the store.
NotSeenBeforeAnyId(entry) == entry.status = None
NotSeenBefore(entry) == entry.status = None /\ entry.id \notin DOMAIN signed_query_store

\* One iteration of the loop of fetch_queries, lines 40-50, on `entry`.
FetchOne(c, entry) ==
    /\ query' = [query EXCEPT ![c] = <<entry>>]
    /\ IF NotSeenBefore(entry)
       THEN /\ signed_query_store' = (entry.id :> NewRecord(entry)) @@ signed_query_store
            /\ feed_left' = [feed_left EXCEPT ![c] = @ - 1]
            /\ UNCHANGED <<pc, result>>
       ELSE IF entry.status # None
       THEN IF entry.id \in DOMAIN signed_query_store
            THEN /\ signed_query_store' = Remove(signed_query_store, entry.id)
                 /\ feed_left' = [feed_left EXCEPT ![c] = @ - 1]
                 /\ UNCHANGED <<pc, result>>
            ELSE \* del of a key the dict does not hold
                 /\ Ends(c, "KeyError")
                 /\ UNCHANGED <<signed_query_store, feed_left>>
       ELSE /\ feed_left' = [feed_left EXCEPT ![c] = @ - 1]
            /\ UNCHANGED <<signed_query_store, pc, result>>
    /\ UNCHANGED <<source_id, received, signed_queries, sent, refreshed>>

\* The feed is the web server's answer (line 36); each entry is drawn when
\* the loop reaches it.
FetchStep(c) ==
    /\ pc[c] = "fetch"
    /\ feed_left[c] > 0
    /\ \E entry \in FeedQueries : FetchOne(c, entry)
    /\ UNCHANGED summary_vars

\* ---------------------------------------------------------- filter_queries
\* The store's records, each once (the dict's iteration order is not
\* modelled: ids are visited in a fixed order).
RECURSIVE Items(_, _)
Items(store, ids) ==
    IF ids = {} THEN << >>
    ELSE LET i == CHOOSE x \in ids : TRUE
         IN  (IF i \in DOMAIN store THEN <<store[i]>> ELSE << >>) \o Items(store, ids \ {i})

\* Lines 54-57: the records among `items` that name registry_id.
FilterAll(registry_id, items) == items
RECURSIVE Filter(_, _)
Filter(registry_id, items) ==
    IF items = << >> THEN << >>
    ELSE (IF registry_id \in Head(items).sources THEN <<Head(items)>> ELSE << >>)
         \o Filter(registry_id, Tail(items))

filter_queries(registry_id) == Filter(registry_id, Items(signed_query_store, QueryIds))

\* handle, lines 77-90: filter, look up the recipient, encrypt, send.
Respond(c) ==
    /\ pc[c] = "fetch"
    /\ feed_left[c] = 0
    /\ LET queries == filter_queries(source_id[c])
       IN  IF source_id[c] \notin DOMAIN RECIPIENTS
           THEN /\ Ends(c, "KeyError")
                /\ UNCHANGED <<sent, refreshed>>
           ELSE IF RECIPIENTS[source_id[c]] = ""
           THEN /\ Ends(c, "Exception")
                /\ UNCHANGED <<sent, refreshed>>
           ELSE /\ sent' = [sent EXCEPT ![c] = Append(@,
                       serialize_encrypt_and_encode([queries |-> queries],
                                                    RECIPIENTS[source_id[c]]))]
                /\ refreshed' = [refreshed EXCEPT ![c] = signed_query_store]
                /\ pc' = [pc EXCEPT ![c] = "wait"]
                /\ UNCHANGED result
    /\ query' = [query EXCEPT ![c] = << >>]
    /\ UNCHANGED <<signed_query_store, source_id, feed_left, received, signed_queries>>
    /\ UNCHANGED summary_vars

\* --------------------------------------------------------------- the reply
\* A handler that asks for the line again when it cannot open it.
HandleReplyRetry(c, line) ==
    /\ received' = [received EXCEPT ![c] = <<line>>]
    /\ IF CanDecrypt(line)
       THEN /\ signed_queries' = [signed_queries EXCEPT ![c] =
                                     decode_decrypt_and_deserialize(line)]
            /\ pc' = [pc EXCEPT ![c] = "merge"]
            /\ UNCHANGED <<signed_query_store, source_id, feed_left, query, sent,
                           refreshed, result>>
       ELSE /\ result' = [result EXCEPT ![c] = DecryptionFailure]
            /\ UNCHANGED <<signed_query_store, pc, source_id, feed_left, query,
                           signed_queries, sent, refreshed>>

\* handle, lines 92-99: the reply line has come; decrypt it.
HandleReply(c, line) ==
    /\ received' = [received EXCEPT ![c] = <<line>>]
    /\ IF CanDecrypt(line)
       THEN /\ signed_queries' = [signed_queries EXCEPT ![c] =
                                     decode_decrypt_and_deserialize(line)]
            /\ pc' = [pc EXCEPT ![c] = "merge"]
            /\ UNCHANGED <<signed_query_store, source_id, feed_left, query, sent,
                           refreshed, result>>
       ELSE /\ Ends(c, DecryptionFailure)
            /\ UNCHANGED <<signed_query_store, source_id, feed_left, query,
                           signed_queries, sent, refreshed>>

\* A reply can only extend signed_by lists shorter than MaxSigned.
WithinBound(mapping) ==
    \A k \in 1..Len(mapping) :
        mapping[k].query_id \in DOMAIN signed_query_store
            => Len(signed_query_store[mapping[k].query_id].signed_by) < MaxSigned

\* The registry answers with one line.
Reply(c) ==
    /\ pc[c] = "wait"
    /\ \E line \in {Garbage} \cup
            {serialize_encrypt_and_encode(m, ServerKey) :
                m \in {x \in ReplyMappings(source_id[c], QueryIds) : WithinBound(x)}} :
          HandleReply(c, line)
    /\ UNCHANGED summary_vars

\* The registry closes the connection instead: readline returns the empty line.
Disconnect(c) ==
    /\ pc[c] = "wait"
    /\ HandleReply(c, EndOfFile)
    /\ UNCHANGED summary_vars

\* The loop body without its check of `verified`.
MergeOneUnverified(c, query_id, reply_query) ==
    IF query_id \notin DOMAIN signed_query_store
    THEN /\ Ends(c, "KeyError")
         /\ UNCHANGED <<signed_query_store, signed_queries>>
    ELSE /\ signed_query_store' = [signed_query_store EXCEPT
                ![query_id].signed_by = Append(@, source_id[c]),
                ![query_id].signed = reply_query]
         /\ signed_queries' = [signed_queries EXCEPT ![c] = Tail(@)]
         /\ UNCHANGED <<pc, result>>

\* The loop body writing through setdefault: an absent id gets a record.
MergeOneCreates(c, query_id, reply_query) ==
    IF ~verify(reply_query)
    THEN /\ Ends(c, "ValueError")
         /\ UNCHANGED <<signed_query_store, signed_queries>>
    ELSE /\ signed_query_store' =
                IF query_id \in DOMAIN signed_query_store
                THEN [signed_query_store EXCEPT
                         ![query_id].signed_by = Append(@, source_id[c]),
                         ![query_id].signed = reply_query]
                ELSE (query_id :> [id |-> query_id, status |-> None,
                                   fields |-> [a |-> 1], sources |-> {},
                                   signed_by |-> <<source_id[c]>>,
                                   signed |-> reply_query])
                     @@ signed_query_store
         /\ signed_queries' = [signed_queries EXCEPT ![c] = Tail(@)]
         /\ UNCHANGED <<pc, result>>

\* The loop body without line 111: signed is left as it was.
MergeOneKeepsSigned(c, query_id, reply_query) ==
    IF ~verify(reply_query)
    THEN /\ Ends(c, "ValueError")
         /\ UNCHANGED <<signed_query_store, signed_queries>>
    ELSE IF query_id \notin DOMAIN signed_query_store
    THEN /\ Ends(c, "KeyError")
         /\ UNCHANGED <<signed_query_store, signed_queries>>
    ELSE /\ signed_query_store' = [signed_query_store EXCEPT
                ![query_id].signed_by = Append(@, source_id[c])]
         /\ signed_queries' = [signed_queries EXCEPT ![c] = Tail(@)]
         /\ UNCHANGED <<pc, result>>

\* One iteration of the loop of handle, lines 101-111, on the entry
\* query_id -> reply_query.
MergeOne(c, query_id, reply_query) ==
    IF ~verify(reply_query)
    THEN /\ Ends(c, "ValueError")
         /\ UNCHANGED <<signed_query_store, signed_queries>>
    ELSE IF query_id \notin DOMAIN signed_query_store
    THEN /\ Ends(c, "KeyError")
         /\ UNCHANGED <<signed_query_store, signed_queries>>
    ELSE /\ signed_query_store' = [signed_query_store EXCEPT
                ![query_id].signed_by = Append(@, source_id[c]),
                ![query_id].signed = reply_query]
         /\ signed_queries' = [signed_queries EXCEPT ![c] = Tail(@)]
         /\ UNCHANGED <<pc, result>>

MergeStep(c) ==
    /\ pc[c] = "merge"
    /\ signed_queries[c] # << >>
    /\ MergeOne(c, Head(signed_queries[c]).query_id, Head(signed_queries[c]).query)
    /\ UNCHANGED <<source_id, feed_left, query, received, sent, refreshed>>
    /\ UNCHANGED summary_vars

\* handle, lines 113-114: the loop is over and handle returns.
Return(c) ==
    /\ pc[c] = "merge"
    /\ signed_queries[c] = << >>
    /\ Ends(c, "ok")
    /\ UNCHANGED <<signed_query_store, source_id, feed_left, query, received,
                   signed_queries, sent, refreshed>>
    /\ UNCHANGED summary_vars

\* The server closes the connection (after logging the exception, if any)
\* and goes back to serve_forever's loop.
Finish(c) ==
    /\ pc[c] = "finished"
    /\ pc' = [pc EXCEPT ![c] = "closed"]
    /\ source_id' = [source_id EXCEPT ![c] = None]
    /\ feed_left' = [feed_left EXCEPT ![c] = 0]
    /\ query' = [query EXCEPT ![c] = << >>]
    /\ received' = [received EXCEPT ![c] = << >>]
    /\ signed_queries' = [signed_queries EXCEPT ![c] = << >>]
    /\ sent' = [sent EXCEPT ![c] = << >>]
    /\ refreshed' = [refreshed EXCEPT ![c] = EmptyStore]
    /\ result' = [result EXCEPT ![c] = None]
    /\ UNCHANGED signed_query_store
    /\ UNCHANGED summary_vars

\* ---------------------------------------------------------- specification
ServerStep(c) ==
    Accept(c) \/ FetchStep(c) \/ Respond(c) \/ MergeStep(c) \/ Return(c) \/ Finish(c)

ClientStep(c) == Connect(c) \/ Reply(c) \/ Disconnect(c)

Next == \E c \in Conns : ServerStep(c) \/ ClientStep(c)

Spec == Init /\ [][Next]_vars

\* The server's own steps are taken when they can be; a client owes nothing.
FairSpec == Spec /\ \A c \in Conns : WF_vars(ServerStep(c))

\* ------------------------------------------------------ the summary server
\* The decrypted result lines: field -> value.
ResultLines ==
    {("sex" :> "F"), ("sex" :> "M"), ("sex" :> "F") @@ ("age" :> "60")}

\* The encrypted lines a batch can hold: a result line encrypted for the
\* server, or bytes that do not decrypt.
EncryptedLines ==
    {serialize_encrypt_and_encode(l, ServerKey) : l \in ResultLines} \cup {Garbage}

\* lib.decrypt_and_deserialize: as decode_decrypt_and_deserialize, on a
\* line that is not base64-encoded.
decrypt_and_deserialize(encrypted) == encrypted.body

\* One individual: at most n encrypted lines.
RECURSIVE Datalines(_)
Datalines(n) ==
    IF n = 0 THEN {<< >>}
    ELSE {<< >>} \cup {<<e>> \o rest : e \in EncryptedLines, rest \in Datalines(n - 1)}

\* data["data"]: at most k individuals with at most n lines in all.
RECURSIVE Batches(_, _)
Batches(k, n) ==
    IF k = 0 THEN {<< >>}
    ELSE {<< >>} \cup
         UNION {{<<dataline>> \o rest : rest \in Batches(k - 1, n - Len(dataline))}
                : dataline \in Datalines(n)}

\* The requests the summary server can decrypt.
Envelopes ==
    {[metadata |-> "meta", query_id |-> i, data |-> d] :
        i \in QueryIds, d \in Batches(MaxIndividuals, MaxLines)}

PresentationRecipient == "presentation@server"

\* What the outbound connect raises when the presentation server is away.
ConnectionError == "ConnectionError"

\* ---------------------------------------------------------- create_summary
EmptyTally == [k \in {} |-> 0]

\* Lines 32-36 with the count set to 1 instead of incremented.
BumpOnce(tally, key, value) ==
    LET t1 == IF key \notin DOMAIN tally THEN (key :> EmptyTally) @@ tally ELSE tally
        t2 == IF value \notin DOMAIN t1[key]
              THEN [t1 EXCEPT ![key] = (value :> 0) @@ @] ELSE t1
    IN  [t2 EXCEPT ![key][value] = 1]

\* Lines 32-36 without the test of line 32: the field's counts start afresh.
BumpResets(tally, key, value) ==
    LET t1 == (key :> EmptyTally) @@ tally
        t2 == IF value \notin DOMAIN t1[key]
              THEN [t1 EXCEPT ![key] = (value :> 0) @@ @] ELSE t1
    IN  [t2 EXCEPT ![key][value] = @ + 1]

\* Lines 32-36: count one more occurrence of value under key.
Bump(tally, key, value) ==
    LET t1 == IF key \notin DOMAIN tally THEN (key :> EmptyTally) @@ tally ELSE tally
        t2 == IF value \notin DOMAIN t1[key]
              THEN [t1 EXCEPT ![key] = (value :> 0) @@ @] ELSE t1
    IN  [t2 EXCEPT ![key][value] = @ + 1]

\* Line 31: the loop over the items of one result line.
RECURSIVE TallyItems(_, _, _)
TallyItems(tally, registry_data, keys) ==
    IF keys = {} THEN tally
    ELSE LET key == CHOOSE k \in keys : TRUE
         IN  TallyItems(Bump(tally, key, registry_data[key]), registry_data, keys \ {key})

\* Line 30: the loop over one individual's lines.
RECURSIVE TallyIndividual(_, _)
TallyIndividual(tally, individual_data) ==
    IF individual_data = << >> THEN tally
    ELSE TallyIndividual(TallyItems(tally, Head(individual_data), DOMAIN Head(individual_data)),
                         Tail(individual_data))

\* Line 29: the loop over the individuals.
RECURSIVE TallyData(_, _)
TallyData(tally, data) ==
    IF data = << >> THEN tally
    ELSE TallyData(TallyIndividual(tally, Head(data)), Tail(data))

create_summary(data) == TallyData(EmptyTally, data)

\* ---------------------------------------------------- SummaryHandler.handle
\* The handler ends: by returning (how = "ok") or by raising `how`.
SummaryEnds(how) ==
    /\ spc' = "finished"
    /\ outcome' = how

\* Lines 42-47: read the request and decrypt it.
Receive ==
    /\ spc = "idle"
    /\ \/ /\ SummaryEnds(DecryptionFailure)
          /\ UNCHANGED envelope
       \/ /\ \E e \in Envelopes : envelope' = e
          /\ spc' = "outer"
          /\ UNCHANGED outcome
    /\ UNCHANGED <<decrypted_line, results, pushed, response>>
    /\ UNCHANGED query_vars

\* Lines 49-50: the next individual's lines.
NextIndividual ==
    /\ spc = "outer"
    /\ Len(results) < Len(envelope.data)
    /\ decrypted_line' = << >>
    /\ spc' = "inner"
    /\ UNCHANGED <<envelope, results, pushed, response, outcome>>
    /\ UNCHANGED query_vars

\* The encrypted line the inner loop is at.
Encrypted == envelope.data[Len(results) + 1][Len(decrypted_line) + 1]

\* A handler that takes a line it cannot decrypt for an empty one.
DecryptLineLenient ==
    /\ spc = "inner"
    /\ Len(decrypted_line) < Len(envelope.data[Len(results) + 1])
    /\ decrypted_line' = Append(decrypted_line,
          IF CanDecrypt(Encrypted) THEN decrypt_and_deserialize(Encrypted) ELSE EmptyTally)
    /\ UNCHANGED <<spc, outcome>>
    /\ UNCHANGED <<envelope, results, pushed, response>>
    /\ UNCHANGED query_vars

\* Lines 51-52: decrypt one line.
DecryptLine ==
    /\ spc = "inner"
    /\ Len(decrypted_line) < Len(envelope.data[Len(results) + 1])
    /\ IF CanDecrypt(Encrypted)
       THEN /\ decrypted_line' = Append(decrypted_line, decrypt_and_deserialize(Encrypted))
            /\ UNCHANGED <<spc, outcome>>
       ELSE /\ SummaryEnds(DecryptionFailure)
            /\ UNCHANGED decrypted_line
    /\ UNCHANGED <<envelope, results, pushed, response>>
    /\ UNCHANGED query_vars

\* Line 53: the individual is done.
EndIndividual ==
    /\ spc = "inner"
    /\ Len(decrypted_line) = Len(envelope.data[Len(results) + 1])
    /\ results' = Append(results, decrypted_line)
    /\ decrypted_line' = << >>
    /\ spc' = "outer"
    /\ UNCHANGED <<envelope, pushed, response, outcome>>
    /\ UNCHANGED query_vars

\* Lines 56-61: summarize and send to the presentation server; the outbound
\* connection can fail, and then handle raises with nothing sent.
Summarize ==
    /\ spc = "outer"
    /\ Len(results) = Len(envelope.data)
    /\ \/ /\ pushed' = Append(pushed,
                serialize_encrypt_and_encode(
                    [data |-> create_summary(results), query_id |-> envelope.query_id,
                     metadata |-> envelope.metadata],
                    PresentationRecipient))
          /\ spc' = "ack"
          /\ UNCHANGED outcome
       \/ /\ SummaryEnds(ConnectionError)
          /\ UNCHANGED pushed
    /\ UNCHANGED <<envelope, decrypted_line, results, response>>
    /\ UNCHANGED query_vars

\* Lines 62-64: the empty acknowledgement; handle returns.
Acknowledge ==
    /\ spc = "ack"
    /\ response' = Append(response, "")
    /\ SummaryEnds("ok")
    /\ UNCHANGED <<envelope, decrypted_line, results, pushed>>
    /\ UNCHANGED query_vars

\* The server closes the connection and waits for the next.
SummaryFinish ==
    /\ spc = "finished"
    /\ spc' = "idle"
    /\ envelope' = [metadata |-> None, query_id |-> None, data |-> << >>]
    /\ decrypted_line' = << >>
    /\ results' = << >>
    /\ pushed' = << >>
    /\ response' = << >>
    /\ outcome' = None
    /\ UNCHANGED query_vars

SummaryNext ==
    \/ Receive \/ NextIndividual \/ DecryptLine \/ EndIndividual
    \/ Summarize \/ Acknowledge \/ SummaryFinish

\* The summary server alone.
SummarySpec == Init /\ [][SummaryNext]_vars

\* ------------------------------------------------------------------ claims
Range(seq) == {seq[k] : k \in 1..Len(seq)}

\* Whether record i carries the same signatures in stores s and t.
SameSignatures(s, t, i) ==
    /\ i \in DOMAIN s /\ i \in DOMAIN t
    /\ s[i].signed_by = t[i].signed_by
    /\ s[i].signed = t[i].signed

\* The step is connection c's fetch_queries visiting `entry`.
FetchStepOn(c, entry) == pc[c] = "fetch" /\ feed_left[c] > 0 /\ FetchOne(c, entry)

\* C1: signed_by or signed of a record that stays in the store changes only
\* in a step of the merge loop on an entry for that id which verify accepts,
\* and signed then is that entry; no stored signed fails verify; while the
\* merge loop stands at an entry verify rejects, the store does not change.
C1_MergesOnlyVerified ==
    [][/\ \A i \in DOMAIN signed_query_store \cap DOMAIN signed_query_store' :
            ~SameSignatures(signed_query_store, signed_query_store', i)
            => \E c \in Conns :
                  /\ pc[c] = "merge" /\ signed_queries[c] # << >>
                  /\ Head(signed_queries[c]).query_id = i
                  /\ verify(Head(signed_queries[c]).query)
                  /\ signed_query_store'[i].signed = Head(signed_queries[c]).query
       /\ \A i \in DOMAIN signed_query_store' : verify(signed_query_store'[i].signed)
       /\ \A c \in Conns :
            (pc[c] = "merge" /\ signed_queries[c] # << >>
               /\ ~verify(Head(signed_queries[c]).query))
            => signed_query_store' = signed_query_store
      ]_vars

\* A reply held a verified entry, now merged, and an entry verify rejected.
C1_Witness ==
    \E c \in Conns : \E i \in DOMAIN signed_query_store :
        /\ result[c] = "ValueError"
        /\ ~verify(Head(signed_queries[c]).query)
        /\ i \in DOMAIN refreshed[c]
        /\ signed_query_store[i].signed_by = Append(refreshed[c][i].signed_by, source_id[c])

\* C2: when a handler aborts on an entry that fails verify, every record
\* carries the signatures it had before the reply was processed.
C2_AllOrNothing ==
    \A c \in Conns :
        result[c] = "ValueError"
        => \A i \in DOMAIN refreshed[c] :
              SameSignatures(signed_query_store, refreshed[c], i)

\* C3: the handler of a request whose source_id is missing or not in the
\* allow-list ends in the step that read the request, with the store, the
\* frames sent and the reply untouched; every handler that is fetching,
\* waiting or merging serves a source_id of the allow-list.
C3_UnauthorizedDoesNothing ==
    [][/\ \A c \in Conns :
            (pc[c] = "pending" /\ pc'[c] # "pending" /\ source_id'[c] \notin valid_sources)
            => /\ pc'[c] = "finished"
               /\ signed_query_store' = signed_query_store
               /\ sent' = sent /\ sent'[c] = << >>
               /\ received' = received /\ received'[c] = << >>
               /\ feed_left' = feed_left /\ query' = query
       /\ \A c \in Conns :
            (pc'[c] \in {"fetch", "wait", "merge"} \/ sent'[c] # << >>
               \/ received'[c] # << >> \/ query'[c] # << >>)
            => source_id'[c] \in valid_sources
      ]_vars

\* An unrecognised registry asked while the store held queries for hunt.
C3_Witness ==
    \E c \in Conns :
        /\ pc[c] = "finished" /\ source_id[c] = "nobody" /\ result[c] = "ok"
        /\ sent[c] = << >>
        /\ filter_queries("hunt") # << >>

\* C4: fetch_queries visiting an entry without status whose id is in the
\* store changes nothing in the store and raises nothing; no step of
\* fetch_queries changes a record that stays in the store.
C4_IdempotentIngestion ==
    [][\A c \in Conns : \A entry \in FeedQueries :
          FetchStepOn(c, entry)
          => /\ \A i \in DOMAIN signed_query_store \cap DOMAIN signed_query_store' :
                   signed_query_store'[i] = signed_query_store[i]
             /\ (entry.status = None /\ entry.id \in DOMAIN signed_query_store)
                => /\ signed_query_store' = signed_query_store
                   /\ pc'[c] = "fetch" /\ result' = result
      ]_vars

\* fetch_queries has just visited another version of a query that is in the
\* store with a signature merged, and the record is as it was.
C4_Witness ==
    \E c \in Conns :
        /\ pc[c] = "fetch" /\ query[c] # << >>
        /\ query[c][1].status = None
        /\ query[c][1].id \in DOMAIN signed_query_store
        /\ signed_query_store[query[c][1].id].signed_by # << >>
        /\ signed_query_store[query[c][1].id].fields # query[c][1].fields

\* C5: fetch_queries visiting an entry with status set whose id is in the
\* store removes that id and nothing else, whatever its signed_by.
C5_StatusPurge ==
    [][\A c \in Conns : \A entry \in FeedQueries :
          (FetchStepOn(c, entry) /\ entry.status # None
             /\ entry.id \in DOMAIN signed_query_store)
          => /\ DOMAIN signed_query_store' = DOMAIN signed_query_store \ {entry.id}
             /\ \A i \in DOMAIN signed_query_store' :
                   signed_query_store'[i] = signed_query_store[i]
             /\ pc'[c] = "fetch" /\ result' = result
      ]_vars

\* fetch_queries has just purged a query, and another is still in the store.
C5_Witness ==
    \E c \in Conns :
        /\ pc[c] = "fetch" /\ query[c] # << >>
        /\ query[c][1].status # None
        /\ query[c][1].id \notin DOMAIN signed_query_store
        /\ signed_query_store # EmptyStore

\* C6: fetch_queries visiting an entry with status set whose id is not in
\* the store raises nothing, leaves the store as it is and goes on.
C6_PurgeAbsentIsSilent ==
    [][\A c \in Conns : \A entry \in FeedQueries :
          (FetchStepOn(c, entry) /\ entry.status # None
             /\ entry.id \notin DOMAIN signed_query_store)
          => /\ signed_query_store' = signed_query_store
             /\ pc'[c] = "fetch" /\ result'[c] = None
             /\ feed_left'[c] = feed_left[c] - 1
      ]_vars

\* The live records of `store` that name registry_id.
Eligible(registry_id, store) ==
    {store[i] : i \in {j \in DOMAIN store : registry_id \in store[j].sources}}

ExactlyOnce(seq, set) == Range(seq) = set /\ Len(seq) = Cardinality(set)

\* C7: filter_queries(R) lists exactly the records of the store whose
\* sources hold R, each once; the one frame a waiting handler has sent is
\* encrypted for its registry and holds this list for the store as it is
\* after the feed refresh, and stays that of the refreshed store later.
C7_FilterCorrect ==
    /\ \A r \in valid_sources \cup {"nobody"} :
          ExactlyOnce(filter_queries(r), Eligible(r, signed_query_store))
    /\ \A c \in Conns :
          /\ pc[c] = "wait"
             => /\ Len(sent[c]) = 1
                /\ sent[c][1].to = RECIPIENTS[source_id[c]]
                /\ ExactlyOnce(sent[c][1].body.queries,
                               Eligible(source_id[c], signed_query_store))
          /\ sent[c] # << >>
             => ExactlyOnce(sent[c][1].body.queries,
                            Eligible(source_id[c], refreshed[c]))

\* cancer waits with a frame that holds one of the two records of the store.
C7_Witness ==
    \E c \in Conns :
        /\ pc[c] = "wait" /\ source_id[c] = "cancer"
        /\ Len(sent[c][1].body.queries) = 1
        /\ Cardinality(DOMAIN signed_query_store) = 2

\* C8: while a handler is between sending its frame and the end of its
\* merge, no other connection's handler runs: every other connection is
\* closed or still waits to be accepted.
C8_SigningWindowExclusive ==
    \A c \in Conns : \A d \in Conns \ {c} :
        pc[c] \in {"wait", "merge"} => pc[d] \in {"closed", "pending"}

\* One registry is inside its window while another connection waits.
C8_Witness ==
    \E c \in Conns : \E d \in Conns \ {c} :
        pc[c] = "merge" /\ signed_queries[c] # << >> /\ pc[d] = "pending"

\* C9: a handler that waits for the reply line eventually leaves the wait,
\* and a connection that waits to be accepted is eventually accepted.
C9_WindowBounded ==
    /\ \A c \in Conns : (pc[c] = "wait") ~> (pc[c] # "wait")
    /\ \A d \in Conns : (pc[d] = "pending") ~> (pc[d] # "pending")

\* C10: once the reply line read is the end of file, the handler has ended
\* with an error, every record carries the signatures it had right after
\* the feed refresh, and the server can close the connection; a connection
\* that waits while no handler runs can be accepted.
C10_CancellationLeavesStoreIntact ==
    /\ \A c \in Conns :
          received[c] = <<EndOfFile>>
          => /\ pc[c] = "finished" /\ result[c] = DecryptionFailure
             /\ DOMAIN signed_query_store = DOMAIN refreshed[c]
             /\ \A i \in DOMAIN refreshed[c] :
                   SameSignatures(signed_query_store, refreshed[c], i)
             /\ ENABLED Finish(c)
    /\ \A d \in Conns :
          (pc[d] = "pending" /\ \A c \in Conns \ {d} : pc[c] \in {"closed", "pending"})
          => ENABLED Accept(d)

\* The registry hung up on a frame that offered it a query, while another
\* connection waits to be served.
C10_Witness ==
    \E c \in Conns : \E d \in Conns \ {c} :
        /\ received[c] = <<EndOfFile>>
        /\ sent[c][1].body.queries # << >>
        /\ pc[d] = "pending"

\* The handler of c has read a reply it could decrypt.
InReply(c) == received[c] # << >> /\ CanDecrypt(received[c][1])

\* C11: a handler that raised KeyError in the merge loop stands at a
\* verified entry whose id is not in the store, has ended, and the server
\* can close its connection; the merge loop never adds or removes an id.
C11_MergeIntoAbsentRejected ==
    \A c \in Conns :
        InReply(c)
        => /\ DOMAIN signed_query_store = DOMAIN refreshed[c]
           /\ result[c] = "KeyError"
              => /\ pc[c] = "finished"
                 /\ signed_queries[c] # << >>
                 /\ verify(Head(signed_queries[c]).query)
                 /\ Head(signed_queries[c]).query_id \notin DOMAIN signed_query_store
                 /\ ENABLED Finish(c)

\* A verified entry for an id the store does not hold has been refused,
\* while the store holds another query.
C11_Witness ==
    \E c \in Conns :
        /\ InReply(c) /\ result[c] = "KeyError"
        /\ Head(signed_queries[c]).query_id \notin DOMAIN signed_query_store
        /\ signed_query_store # EmptyStore

\* C12: no registry occurs twice in a record's signed_by.
C12_NoDuplicateSigners ==
    \A i \in DOMAIN signed_query_store :
        \A j, k \in 1..Len(signed_query_store[i].signed_by) :
            j # k => signed_query_store[i].signed_by[j] # signed_query_store[i].signed_by[k]

\* The ids a reply mapping names.
ReplyIds(mapping) == {mapping[k].query_id : k \in 1..Len(mapping)}

\* The query a reply mapping returns for id i.
ReplyFor(mapping, i) ==
    mapping[CHOOSE k \in 1..Len(mapping) : mapping[k].query_id = i].query

\* C13: when a handler has returned from the merge loop, every record the
\* reply names has the registry appended once to the signed_by it had after
\* the refresh, signed is the returned query, fields and sources are as
\* they were; every other record is as the refresh left it.
C13_MergeEffect ==
    \A c \in Conns :
        (InReply(c) /\ result[c] = "ok")
        => LET mapping == decode_decrypt_and_deserialize(received[c][1])
           IN  /\ DOMAIN signed_query_store = DOMAIN refreshed[c]
               /\ ReplyIds(mapping) \subseteq DOMAIN signed_query_store
               /\ \A i \in DOMAIN signed_query_store :
                    IF i \in ReplyIds(mapping)
                    THEN /\ signed_query_store[i].signed_by
                               = refreshed[c][i].signed_by \o <<source_id[c]>>
                         /\ signed_query_store[i].signed = ReplyFor(mapping, i)
                         /\ verify(ReplyFor(mapping, i))
                         /\ signed_query_store[i].fields = refreshed[c][i].fields
                         /\ signed_query_store[i].sources = refreshed[c][i].sources
                         /\ signed_query_store[i].id = i
                    ELSE signed_query_store[i] = refreshed[c][i]

\* hunt's first round on a new query: q1 ends with signed_by = [hunt].
C13_Witness ==
    \E c \in Conns :
        /\ InReply(c) /\ result[c] = "ok" /\ source_id[c] = "hunt"
        /\ "q1" \in DOMAIN signed_query_store
        /\ refreshed[c]["q1"].signed_by = << >>
        /\ signed_query_store["q1"].sources = {"hunt"}
        /\ signed_query_store["q1"].signed_by = <<"hunt">>

\* The baseline signature of a payload: the server's over its JSON text.
Baseline(fields) == [text |-> json_dumps(fields), key |-> ServerKey]

\* C14: fetch_queries visiting an entry without status whose id is not in
\* the store adds one record for that id, with the entry's fields and
\* sources, signed_by empty and signed the baseline signature of its
\* fields, and changes no other record; every record nobody has signed yet
\* carries the baseline signature of its fields.
C14_CreationOfNewRecord ==
    [][/\ \A c \in Conns : \A entry \in FeedQueries :
            (FetchStepOn(c, entry) /\ entry.status = None
               /\ entry.id \notin DOMAIN signed_query_store)
            => /\ DOMAIN signed_query_store' = DOMAIN signed_query_store \cup {entry.id}
               /\ \A i \in DOMAIN signed_query_store :
                     signed_query_store'[i] = signed_query_store[i]
               /\ signed_query_store'[entry.id].id = entry.id
               /\ signed_query_store'[entry.id].fields = entry.fields
               /\ signed_query_store'[entry.id].sources = entry.sources
               /\ signed_query_store'[entry.id].signed_by = << >>
               /\ signed_query_store'[entry.id].signed = Baseline(entry.fields)
               /\ pc'[c] = "fetch" /\ result' = result
       /\ \A i \in DOMAIN signed_query_store' :
            signed_query_store'[i].signed_by = << >>
            => signed_query_store'[i].signed = Baseline(signed_query_store'[i].fields)
      ]_vars

\* fetch_queries has just created the record of a query for hunt and cancer
\* with payload a = 2, beside a record that is already signed.
C14_Witness ==
    \E c \in Conns : \E i \in DOMAIN signed_query_store :
        /\ pc[c] = "fetch" /\ query[c] # << >>
        /\ query[c][1].status = None /\ query[c][1].fields = [a |-> 2]
        /\ query[c][1].id \in DOMAIN signed_query_store
        /\ signed_query_store[query[c][1].id].signed_by = << >>
        /\ signed_query_store[query[c][1].id].fields = [a |-> 2]
        /\ signed_query_store[query[c][1].id].signed = Baseline([a |-> 2])
        /\ signed_query_store[i].signed_by # << >>

IsPrefix(s, t) == Len(s) <= Len(t) /\ SubSeq(t, 1, Len(s)) = s

\* C18: over every step in which an id stays in the store, its earlier
\* signed_by is a prefix of its later one.
C18_SignedByAppendOnly ==
    [][\A i \in DOMAIN signed_query_store \cap DOMAIN signed_query_store' :
          IsPrefix(signed_query_store[i].signed_by, signed_query_store'[i].signed_by)
      ]_vars

\* A record signed in two rounds is in the store while the feed is
\* refreshed again and names it once more.
C18_Witness ==
    \E c \in Conns :
        /\ pc[c] = "fetch" /\ query[c] # << >>
        /\ query[c][1].status = None
        /\ query[c][1].id \in DOMAIN signed_query_store
        /\ signed_query_store[query[c][1].id].signed_by = <<"hunt", "cancer">>

\* C19: every registry in a record's signed_by is one of its sources.
C19_OnlyEligibleSign ==
    \A i \in DOMAIN signed_query_store :
        Range(signed_query_store[i].signed_by) \subseteq signed_query_store[i].sources

\* The places (individual, source) of a batch of decrypted lines.
Positions(data) ==
    UNION {{<<i, j>> : j \in 1..Len(data[i])} : i \in 1..Len(data)}

\* The places whose line maps key to something, and to value.
PlacesWith(data, key) ==
    {p \in Positions(data) : key \in DOMAIN data[p[1]][p[2]]}

Occurrences(data, key, value) ==
    Cardinality({p \in PlacesWith(data, key) : data[p[1]][p[2]][key] = value})

\* tally[field][value] counts the lines of data that map field to value,
\* with an entry exactly for the pairs that occur.
IsTallyOf(tally, data) ==
    /\ DOMAIN tally = UNION {DOMAIN data[p[1]][p[2]] : p \in Positions(data)}
    /\ \A key \in DOMAIN tally :
          /\ DOMAIN tally[key] = {data[p[1]][p[2]][key] : p \in PlacesWith(data, key)}
          /\ \A value \in DOMAIN tally[key] :
                tally[key][value] = Occurrences(data, key, value)

\* C15: create_summary of the lines decrypted so far is their tally, and so
\* is the tally pushed downstream for the whole batch.
C15_TallyCorrect ==
    /\ IsTallyOf(create_summary(results), results)
    /\ pushed # << >> => IsTallyOf(pushed[1].body.data, results)

\* [[{sex: F}, {sex: F}], [{sex: M}]] has been pushed as {sex: {F: 2, M: 1}}.
C15_Witness ==
    /\ results = << <<("sex" :> "F"), ("sex" :> "F")>>, <<("sex" :> "M")>> >>
    /\ pushed # << >>
    /\ pushed[1].body.data = ("sex" :> (("F" :> 2) @@ ("M" :> 1)))

Swap(seq, i, j) == [seq EXCEPT ![i] = seq[j], ![j] = seq[i]]

RECURSIVE Flatten(_)
Flatten(data) == IF data = << >> THEN << >> ELSE Head(data) \o Flatten(Tail(data))

\* C16: exchanging two individuals, exchanging two lines of an individual,
\* putting all lines under one individual or each line under its own gives
\* the same tally as the batch as it came; the tally pushed is that tally.
C16_TallyCommutes ==
    LET tally == create_summary(results)
        flat == Flatten(results)
    IN  /\ \A i, j \in 1..Len(results) : create_summary(Swap(results, i, j)) = tally
        /\ \A i \in 1..Len(results) : \A j, k \in 1..Len(results[i]) :
              create_summary([results EXCEPT ![i] = Swap(@, j, k)]) = tally
        /\ create_summary(<<flat>>) = tally
        /\ create_summary([k \in 1..Len(flat) |-> <<flat[k]>>]) = tally
        /\ pushed # << >> => pushed[1].body.data = create_summary(<<flat>>)

\* A batch of two individuals whose lines differ has been tallied.
C16_Witness ==
    /\ pushed # << >>
    /\ Len(results) = 2
    /\ Len(results[2]) = 2
    /\ results[1] # << >>
    /\ results[2][1] # results[2][2]
    /\ results[1][1] # results[2][1]

\* Every line of the batch decrypts.
AllDecrypt(data) ==
    \A p \in Positions(data) : CanDecrypt(data[p[1]][p[2]])

\* C17: a frame is pushed, once and to the presentation server, only when
\* every line of the batch has been decrypted; the acknowledgement is sent
\* only after the push; a handler that failed to decrypt, and any handler
\* of a batch with a line that does not decrypt, has pushed and
\* acknowledged nothing.
C17_FailLoud ==
    /\ pushed # << >>
       => /\ spc \in {"ack", "finished"}
          /\ AllDecrypt(envelope.data)
          /\ results = [i \in 1..Len(envelope.data) |->
                          [j \in 1..Len(envelope.data[i]) |->
                              decrypt_and_deserialize(envelope.data[i][j])]]
          /\ Len(pushed) = 1
          /\ pushed[1].to = PresentationRecipient
          /\ pushed[1].body.query_id = envelope.query_id
          /\ pushed[1].body.metadata = envelope.metadata
    /\ response # << >>
       => pushed # << >> /\ response = <<"">> /\ outcome = "ok"
    /\ outcome = DecryptionFailure
       => pushed = << >> /\ response = << >> /\ spc = "finished"
    /\ ~AllDecrypt(envelope.data)
       => pushed = << >> /\ response = << >> /\ outcome # "ok"

\* The handler has ended on a line it could not decrypt, after it had
\* decrypted an individual and a line of the next.
C17_Witness ==
    /\ outcome = DecryptionFailure
    /\ Len(results) = 1 /\ results[1] # << >>
    /\ decrypted_line # << >>
    /\ pushed = << >> /\ response = << >>

====
